---- MODULE Spec2Model ----
(***************************************************************************)
(* A model of genum: the directive parser (internal/directive.go), the     *)
(* parser/aggregator (internal/parser.go, final revision) and the driver   *)
(* (main.go, internal/generator.go).                                       *)
(*                                                                         *)
(* Go strings are sequences of one-character strings.  A nullable pointer  *)
(* or error is a sequence of length 0 (nil) or 1.                          *)
(***************************************************************************)
EXTENDS Integers, Sequences, FiniteSets, TLC

(***************************************************************************)
(* Bounds                                                                  *)
(***************************************************************************)
\* tokens after the marker in an enumerated comment
MaxTokens == 2
\* quote characters put on each side of a -type value
MaxQuotes == 2

(***************************************************************************)
(* package strings, as used by directive.go and parser.go                  *)
(***************************************************************************)
\* unicode.IsSpace restricted to the characters of the model's alphabet
WhiteSpace == {" ", "\t"}

DQ == "\""
SQ == "'"

RECURSIVE TrimLeft(_, _)
TrimLeft(s, cutset) ==
    IF s # <<>> /\ Head(s) \in cutset THEN TrimLeft(Tail(s), cutset) ELSE s

RECURSIVE TrimRight(_, _)
TrimRight(s, cutset) ==
    IF s # <<>> /\ s[Len(s)] \in cutset
    THEN TrimRight(SubSeq(s, 1, Len(s) - 1), cutset)
    ELSE s

\* strings.Trim(s, cutset): every leading and trailing character of cutset goes
Trim(s, cutset) == TrimRight(TrimLeft(s, cutset), cutset)

TrimSpace(s) == Trim(s, WhiteSpace)

HasPrefix(s, prefix) ==
    Len(s) >= Len(prefix) /\ SubSeq(s, 1, Len(prefix)) = prefix

HasSuffix(s, suffix) ==
    Len(s) >= Len(suffix) /\ SubSeq(s, Len(s) - Len(suffix) + 1, Len(s)) = suffix

TrimPrefix(s, prefix) ==
    IF HasPrefix(s, prefix) THEN SubSeq(s, Len(prefix) + 1, Len(s)) ELSE s

\* strings.Index, 1-based; 0 when substr does not occur
Index(s, substr) ==
    LET hits == {i \in 1..(Len(s) - Len(substr) + 1) :
                    SubSeq(s, i, i + Len(substr) - 1) = substr}
    IN IF hits = {} THEN 0 ELSE CHOOSE i \in hits : \A j \in hits : i <= j

Cut(s, sep) ==
    LET i == Index(s, sep)
    IN IF i = 0
       THEN [before |-> s, after |-> <<>>, found |-> FALSE]
       ELSE [before |-> SubSeq(s, 1, i - 1),
             after  |-> SubSeq(s, i + Len(sep), Len(s)),
             found  |-> TRUE]

\* strings.Replace(s, old, new, n) for non-empty old and n >= 0
RECURSIVE Replace(_, _, _, _)
Replace(s, old, new, n) ==
    LET i == Index(s, old)
    IN IF n = 0 \/ i = 0
       THEN s
       ELSE SubSeq(s, 1, i - 1) \o new
            \o Replace(SubSeq(s, i + Len(old), Len(s)), old, new, n - 1)

RECURSIVE Fields(_)
Fields(s) ==
    LET t == TrimLeft(s, WhiteSpace)
    IN IF t = <<>>
       THEN <<>>
       ELSE LET ws == {i \in 1..Len(t) : t[i] \in WhiteSpace}
                n  == IF ws = {} THEN Len(t) + 1
                      ELSE CHOOSE i \in ws : \A j \in ws : i <= j
            IN <<SubSeq(t, 1, n - 1)>> \o Fields(SubSeq(t, n, Len(t)))

(***************************************************************************)
(* internal/directive.go                                                   *)
(***************************************************************************)
GoGenerate == <<"/", "/", "g", "o", ":", "g", "e", "n", "e", "r", "a", "t", "e">>
Genum == <<"g", "e", "n", "u", "m">>

genumPrefix == GoGenerate \o <<" ">> \o Genum \o <<" ">>

CaseSensitive == <<"s", "e", "n", "s", "i", "t", "i", "v", "e">>
CaseIgnore    == <<"i", "g", "n", "o", "r", "e">>
CaseLower     == <<"l", "o", "w", "e", "r">>
CaseUpper     == <<"u", "p", "p", "e", "r">>

IsValid(c) == c \in {CaseSensitive, CaseIgnore, CaseLower, CaseUpper}

KeyType       == <<"-", "t", "y", "p", "e">>
KeyOutput     == <<"-", "o", "u", "t", "p", "u", "t">>
KeyTrimPrefix == <<"-", "t", "r", "i", "m", "p", "r", "e", "f", "i", "x">>
KeyCase       == <<"-", "c", "a", "s", "e">>

DotGo      == <<".", "g", "o">>
GenumDotGo == <<"_", "g", "e", "n", "u", "m", ".", "g", "o">>

\* fmt.Errorf(msg, arg)
Errorf(msg, arg) == <<[msg |-> msg, arg |-> arg]>>

EmptyMap == [k \in {} |-> <<>>]

\* a mutant of ParseFlagsLoop: a part is split at its last "="
RECURSIVE ParseFlagsLoop_LastEq(_, _)
ParseFlagsLoop_LastEq(parts, out) ==
    IF parts = <<>>
    THEN [flags |-> <<out>>, err |-> <<>>]
    ELSE LET part == Head(parts)
             eqs == {i \in 1..Len(part) : part[i] = "="}
             n == CHOOSE i \in eqs : \A j \in eqs : j <= i
         IN IF eqs = {}
            THEN [flags |-> <<>>, err |-> Errorf("invalid argument: %s", part)]
            ELSE ParseFlagsLoop_LastEq(Tail(parts),
                    (SubSeq(part, 1, n - 1)
                        :> Trim(SubSeq(part, n + 1, Len(part)), {DQ, SQ})) @@ out)

\* the loop of ParseFlags over the remaining parts, out being the map so far
RECURSIVE ParseFlagsLoop(_, _)
ParseFlagsLoop(parts, out) ==
    IF parts = <<>>
    THEN [flags |-> <<out>>, err |-> <<>>]
    ELSE LET c == Cut(Head(parts), <<"=">>)
         IN IF ~c.found
            THEN [flags |-> <<>>, err |-> Errorf("invalid argument: %s", Head(parts))]
            ELSE ParseFlagsLoop(Tail(parts),
                                (c.before :> Trim(c.after, {DQ, SQ})) @@ out)

ParseFlags(comment) ==
    ParseFlagsLoop(Fields(TrimPrefix(comment, genumPrefix)), EmptyMap)

\* a mutant of IsGenumDirective: the marker may occur anywhere in the comment
IsGenumDirective_Contains(comment) == Index(TrimSpace(comment), genumPrefix) > 0

IsGenumDirective(comment) == HasPrefix(TrimSpace(comment), genumPrefix)

\* the Directive literal and the loop over flagMap (directive.go 45-59)
NewDirective(flagMap) ==
    LET Get(k, zero) == IF k \in DOMAIN flagMap THEN flagMap[k] ELSE zero
    IN [TypeName   |-> Get(KeyType, <<>>),
        OutputFile |-> Get(KeyOutput, <<>>),
        TrimPrefix |-> Get(KeyTrimPrefix, <<>>),
        Case       |-> Get(KeyCase, CaseSensitive)]

\* the derived output path (directive.go 65)
DefaultOutput(sourceFile) == Replace(sourceFile, DotGo, GenumDotGo, 1)

\* a mutant of Defaulting: the -type check is gone
Defaulting_NoTypeCheck(d, sourceFile) ==
    IF ~IsValid(d.Case)
    THEN [directive |-> <<>>,
          err |-> Errorf("invalid argument -case: %s", d.Case)]
    ELSE [directive |->
            <<[TypeName   |-> d.TypeName,
               OutputFile |-> IF d.OutputFile = <<>>
                              THEN DefaultOutput(sourceFile)
                              ELSE d.OutputFile,
               TrimPrefix |-> IF d.TrimPrefix = <<>> THEN d.TypeName ELSE d.TrimPrefix,
               Case       |-> d.Case]>>,
          err |-> <<>>]

\* the checks and defaults after the loop (directive.go 61-74)
Defaulting(d, sourceFile) ==
    IF d.TypeName = <<>>
    THEN [directive |-> <<>>,
          err |-> Errorf("-type=<type> is required", <<>>)]
    ELSE IF ~IsValid(d.Case)
    THEN [directive |-> <<>>,
          err |-> Errorf("invalid argument -case: %s", d.Case)]
    ELSE [directive |->
            <<[TypeName   |-> d.TypeName,
               OutputFile |-> IF d.OutputFile = <<>>
                              THEN DefaultOutput(sourceFile)
                              ELSE d.OutputFile,
               TrimPrefix |-> IF d.TrimPrefix = <<>> THEN d.TypeName ELSE d.TrimPrefix,
               Case       |-> d.Case]>>,
          err |-> <<>>]

ParseFromComment(comment, sourceFile) ==
    LET c == TrimSpace(comment)
    IN IF ~IsGenumDirective(c)
       THEN [directive |-> <<>>, err |-> <<>>]
       ELSE LET pf == ParseFlags(c)
            IN IF pf.err # <<>>
               THEN [directive |-> <<>>, err |-> pf.err]
               ELSE Defaulting(NewDirective(pf.flags[1]), sourceFile)

(***************************************************************************)
(* internal/parser.go (final revision)                                     *)
(*                                                                         *)
(* A package is [Name, Scope, Syntax]: Scope maps a declared name to its   *)
(* object [Kind, Type]; Syntax is the sequence of files, a file the        *)
(* sequence of its declarations [Kind, Tok, Doc, Specs].  A constant spec  *)
(* is [Names, Values]; a name is [Name, Def] with Def the resolved type of *)
(* the object it defines (nil: <<>>); an expression is [Kind, Text, Args,  *)
(* TV] with TV the constant value the type checker recorded (nil: <<>>).   *)
(* A type is [K, Name, Under]; two types are identical iff equal.          *)
(***************************************************************************)
UpperCase ==
    {"A", "B", "C", "D", "E", "F", "G", "H", "I", "J", "K", "L", "M",
     "N", "O", "P", "Q", "R", "S", "T", "U", "V", "W", "X", "Y", "Z"}

\* ast.IsExported
IsExported(name) == name # <<>> /\ Head(name) \in UpperCase

Basic(name) == [K |-> "Basic", Name |-> name, Under |-> <<>>]
Named(name, under) == [K |-> "Named", Name |-> name, Under |-> <<under>>]
Pointer(elem) == [K |-> "Pointer", Name |-> <<>>, Under |-> <<elem>>]
Struct == [K |-> "Struct", Name |-> <<>>, Under |-> <<>>]
Slice(elem) == [K |-> "Slice", Name |-> <<>>, Under |-> <<elem>>]

StringT == <<"s", "t", "r", "i", "n", "g">>
IntT == <<"i", "n", "t">>

RECURSIVE TypeString(_)
TypeString(typ) ==
    CASE typ.K = "Basic" -> typ.Name
      [] typ.K = "Named" -> TypeString(typ.Under[1])
      [] typ.K = "Pointer" -> <<"*">> \o TypeString(typ.Under[1])
      [] typ.K = "Struct" -> <<"s", "t", "r", "u", "c", "t", "{", "}">>
      [] OTHER -> <<"u", "n", "s", "u", "p", "p", "o", "r", "t", "e", "d">>

\* nil (<<>>) or a pointer to the base type's name; pkg.TypesInfo is never nil,
\* the loader asks for it
ParseBaseType(pkg, typeName) ==
    IF typeName \notin DOMAIN pkg.Scope THEN <<>>
    ELSE IF pkg.Scope[typeName].Kind # "TypeName" THEN <<>>
    ELSE <<TypeString(pkg.Scope[typeName].Type)>>

\* the resolved constant value when the type checker recorded one, else the
\* literal's text or the identifier's name, else the empty string
extractConstantValue(pkg, expr) ==
    IF expr.TV # <<>>
    THEN Trim(expr.TV[1], {DQ})
    ELSE CASE expr.Kind = "BasicLit" -> Trim(expr.Text, {DQ})
           [] expr.Kind = "Ident" -> expr.Text
           [] OTHER -> <<>>

\* a mutant of ProcessNames: unexported names are appended too
RECURSIVE ProcessNames_Unfiltered(_, _, _, _, _)
ProcessNames_Unfiltered(pkg, valueSpec, i, target, values) ==
    IF i > Len(valueSpec.Names) THEN values
    ELSE LET name == valueSpec.Names[i]
             value == IF Len(valueSpec.Values) >= i
                      THEN extractConstantValue(pkg, valueSpec.Values[i])
                      ELSE name.Name
         IN ProcessNames_Unfiltered(pkg, valueSpec, i + 1, target,
                IF name.Def = <<>> \/ name.Def[1] # target
                THEN values
                ELSE Append(values, [Name |-> name.Name, Value |-> value]))

\* the loop over valueSpec.Names from index i on (parser.go 163-186)
RECURSIVE ProcessNames(_, _, _, _, _)
ProcessNames(pkg, valueSpec, i, target, values) ==
    IF i > Len(valueSpec.Names) THEN values
    ELSE LET name == valueSpec.Names[i]
             value == IF Len(valueSpec.Values) >= i
                      THEN extractConstantValue(pkg, valueSpec.Values[i])
                      ELSE name.Name
             next == IF name.Def = <<>> \/ name.Def[1] # target
                     THEN values
                     ELSE IF IsExported(name.Name)
                     THEN Append(values, [Name |-> name.Name, Value |-> value])
                     ELSE values
         IN ProcessNames(pkg, valueSpec, i + 1, target, next)

\* the loop over decl.Specs (parser.go 157-187)
RECURSIVE ProcessSpecs(_, _, _, _)
ProcessSpecs(pkg, specs, target, values) ==
    IF specs = <<>> THEN values
    ELSE ProcessSpecs(pkg, Tail(specs), target,
                      IF Len(Head(specs).Names) = 0 THEN values
                      ELSE ProcessNames(pkg, Head(specs), 1, target, values))

ProcessConstGroupWithTypes(pkg, decl, targetType, values) ==
    IF targetType \notin DOMAIN pkg.Scope \/ pkg.Scope[targetType].Kind # "TypeName"
    THEN values
    ELSE ProcessSpecs(pkg, decl.Specs, pkg.Scope[targetType].Type, values)

\* ast.Inspect over the declarations of one file
RECURSIVE InspectConsts(_, _, _, _)
InspectConsts(pkg, decls, typeName, values) ==
    IF decls = <<>> THEN values
    ELSE InspectConsts(pkg, Tail(decls), typeName,
            IF Head(decls).Kind = "GenDecl" /\ Head(decls).Tok = "const"
            THEN ProcessConstGroupWithTypes(pkg, Head(decls), typeName, values)
            ELSE values)

RECURSIVE ParseConstantsFrom(_, _, _, _)
ParseConstantsFrom(pkg, files, typeName, values) ==
    IF files = <<>> THEN values
    ELSE ParseConstantsFrom(pkg, Tail(files), typeName,
                            InspectConsts(pkg, Head(files), typeName, values))

ParseConstants(pkg, typeName) == ParseConstantsFrom(pkg, pkg.Syntax, typeName, <<>>)

\* fmt.Errorf(msg, arg, cause) with %w
Wrapf(msg, arg, cause) == <<[msg |-> msg, arg |-> arg, cause |-> cause[1]]>>

\* a mutant of ParseSingleEnum: an empty sequence of values is accepted
ParseSingleEnum_AcceptsEmpty(pkg, directive) ==
    LET baseType == ParseBaseType(pkg, directive.TypeName)
    IN IF baseType = <<>> \/ baseType[1] = <<>>
       THEN [enum |-> <<>>, err |-> Errorf("type %s not found", directive.TypeName)]
       ELSE [enum |-> <<[TypeName   |-> directive.TypeName,
                         BaseType   |-> baseType[1],
                         TrimPrefix |-> <<>>,
                         Case       |-> <<>>,
                         Values     |-> ParseConstants(pkg, directive.TypeName)]>>,
             err |-> <<>>]

ParseSingleEnum(pkg, directive) ==
    LET baseType == ParseBaseType(pkg, directive.TypeName)
        values == ParseConstants(pkg, directive.TypeName)
    IN IF baseType = <<>> \/ baseType[1] = <<>>
       THEN [enum |-> <<>>, err |-> Errorf("type %s not found", directive.TypeName)]
       ELSE IF Len(values) = 0
       THEN [enum |-> <<>>,
             err |-> Errorf("no values found for enum %s", directive.TypeName)]
       ELSE [enum |-> <<[TypeName   |-> directive.TypeName,
                         BaseType   |-> baseType[1],
                         TrimPrefix |-> <<>>,
                         Case       |-> <<>>,
                         Values     |-> values]>>,
             err |-> <<>>]

\* the comments of one doc group, until one fails to parse (parser.go 90-98)
RECURSIVE DocDirectives(_, _)
DocDirectives(doc, sourceFileName) ==
    IF doc = <<>> THEN <<>>
    ELSE LET r == ParseFromComment(Head(doc), sourceFileName)
         IN IF r.err # <<>> THEN <<>>
            ELSE r.directive \o DocDirectives(Tail(doc), sourceFileName)

\* ast.Inspect over the declarations of the source file (parser.go 88-101)
RECURSIVE InspectDirectives_AnyDoc(_, _)
InspectDirectives_AnyDoc(decls, sourceFileName) ==
    IF decls = <<>> THEN <<>>
    ELSE (IF Head(decls).Doc # <<>>
          THEN DocDirectives(Head(decls).Doc, sourceFileName)
          ELSE <<>>)
         \o InspectDirectives_AnyDoc(Tail(decls), sourceFileName)

RECURSIVE InspectDirectives(_, _)
InspectDirectives(decls, sourceFileName) ==
    IF decls = <<>> THEN <<>>
    ELSE (IF Head(decls).Kind = "GenDecl" /\ Head(decls).Doc # <<>>
          THEN DocDirectives(Head(decls).Doc, sourceFileName)
          ELSE <<>>)
         \o InspectDirectives(Tail(decls), sourceFileName)

ParseFileDirectives(env) ==
    [directives |-> InspectDirectives(env.SourceFile, env.SourceFileName),
     err |-> <<>>]

\* the File of the first directive seen for an output path (parser.go 61-72)
NewFile(env, directive, enum) ==
    [Package |-> env.Pkg.Name,
     Source  |-> env.SourceFileName,
     Output  |-> directive.OutputFile,
     Enums   |-> <<>>,
     NeedStringsPackage |->
        directive.Case # CaseSensitive /\ enum.BaseType = StringT]

\* a mutant of AddEnum: every directive starts its File afresh
AddEnum_Overwrite(files, env, directive, enum) ==
    (directive.OutputFile :>
        [NewFile(env, directive, enum) EXCEPT !.Enums = <<enum>>]) @@ files

\* the File map after one directive's enum (parser.go 60-76)
AddEnum(files, env, directive, enum) ==
    LET have == IF directive.OutputFile \in DOMAIN files
                THEN files
                ELSE (directive.OutputFile :> NewFile(env, directive, enum)) @@ files
    IN [have EXCEPT ![directive.OutputFile].Enums = Append(@, enum)]

\* the loop over the directives (parser.go 51-77)
RECURSIVE ParseLoop(_, _, _)
ParseLoop(env, directives, files) ==
    IF directives = <<>> THEN [files |-> files, err |-> <<>>]
    ELSE LET directive == Head(directives)
             r == ParseSingleEnum(env.Pkg, directive)
         IN IF r.err # <<>>
            THEN [files |-> EmptyMap,
                  err |-> Wrapf("failed to parse enum %s: %w", directive.TypeName, r.err)]
            ELSE ParseLoop(env, Tail(directives),
                    AddEnum(files, env, directive,
                            [r.enum[1] EXCEPT !.TrimPrefix = directive.TrimPrefix,
                                              !.Case = directive.Case]))

\* the orders in which ranging over a map may visit its entries
MapOrders(m) ==
    {o \in [1..Cardinality(DOMAIN m) -> DOMAIN m] :
        \A a, b \in 1..Cardinality(DOMAIN m) : a # b => o[a] # o[b]}

Parse_NoEmptyCheck(env) ==
    LET pfd == ParseFileDirectives(env)
    IN IF pfd.err # <<>> THEN {[files |-> <<>>, err |-> pfd.err]}
       ELSE LET r == ParseLoop(env, pfd.directives, EmptyMap)
            IN IF r.err # <<>> THEN {[files |-> <<>>, err |-> r.err]}
               ELSE {[files |-> [k \in DOMAIN o |-> r.files[o[k]]], err |-> <<>>] :
                        o \in MapOrders(r.files)}

\* every value Parse may return: the map of Files is ranged over in any order
Parse(env) ==
    LET pfd == ParseFileDirectives(env)
    IN IF pfd.err # <<>> THEN {[files |-> <<>>, err |-> pfd.err]}
       ELSE IF Len(pfd.directives) = 0
       THEN {[files |-> <<>>, err |-> Errorf("no genum directives found", <<>>)]}
       ELSE LET r == ParseLoop(env, pfd.directives, EmptyMap)
            IN IF r.err # <<>> THEN {[files |-> <<>>, err |-> r.err]}
               ELSE {[files |-> [k \in DOMAIN o |-> r.files[o[k]]], err |-> <<>>] :
                        o \in MapOrders(r.files)}

(***************************************************************************)
(* State                                                                   *)
(***************************************************************************)
VARIABLES
    \* inputs and results of the exported functions of directive.go
    comment, sourceFile, recognized, flagsOut, parsed,
    \* a run of main: the declarations of the file named by GOFILE, main's
    \* locals env, files and err, the position of its loop over files, the
    \* error stream, the exit status, the output files written so far
    source, pc, env, files, err, next, stderr, exitCode, written,
    \* the constant extractor called on one package
    cpkg, cvalues

dvars == <<comment, sourceFile, recognized, flagsOut, parsed>>
mvars == <<source, pc, env, files, err, next, stderr, exitCode, written>>
cvars == <<cpkg, cvalues>>
vars == <<dvars, mvars, cvars>>

\* the values of the variables a specification does not use
DIdle ==
    /\ comment = <<>> /\ sourceFile = <<>>
    /\ recognized = <<>> /\ flagsOut = <<>> /\ parsed = <<>>

MIdle ==
    /\ source = <<>> /\ pc = "Idle" /\ env = <<>> /\ files = <<>> /\ err = <<>>
    /\ next = 1 /\ stderr = <<>> /\ exitCode = <<>> /\ written = <<>>

CIdle == cpkg = <<>> /\ cvalues = <<>>

(***************************************************************************)
(* Enumerated inputs of the directive parser                               *)
(***************************************************************************)
SeqsUpTo(S, n) == UNION {[1..k -> S] : k \in 0..n}

RECURSIVE Join(_, _)
Join(toks, sep) ==
    IF toks = <<>> THEN <<>>
    ELSE IF Len(toks) = 1 THEN toks[1]
    ELSE toks[1] \o sep \o Join(Tail(toks), sep)

Tok(k, v) == k \o <<"=">> \o v

TypeS == <<"S">>
OutGo == <<"o", ".", "g", "o">>
Bogus == <<"b", "a", "d">>

BasicTokens ==
    { Tok(KeyType, TypeS), Tok(KeyType, <<>>), Tok(KeyType, <<DQ, DQ>>),
      Tok(KeyType, <<"S", "=", "T">>), KeyType,
      Tok(KeyOutput, OutGo), Tok(KeyOutput, <<>>),
      Tok(KeyTrimPrefix, <<"P">>),
      Tok(KeyCase, CaseSensitive), Tok(KeyCase, CaseIgnore),
      Tok(KeyCase, CaseLower), Tok(KeyCase, CaseUpper),
      Tok(KeyCase, <<>>), Tok(KeyCase, Bogus),
      Tok(KeyCase, <<SQ>> \o CaseUpper \o <<SQ>>),
      Tok(<<"-", "x">>, <<"1">>) }

TokenComments ==
    {genumPrefix \o Join(toks, <<" ">>) : toks \in SeqsUpTo(BasicTokens, MaxTokens)}

QuoteStrs == SeqsUpTo({DQ, SQ}, MaxQuotes)

QuoteCores == {<<"S">>, <<"S", SQ, "T">>, <<"S", DQ, "T">>}

QuoteComments ==
    {genumPrefix \o Tok(KeyType, l \o core \o r) :
        l \in QuoteStrs, core \in QuoteCores, r \in QuoteStrs}

Heads ==
    { genumPrefix,
      GoGenerate \o <<" ">> \o Genum,
      GoGenerate \o <<" ", "s", "o", "m", "e">> \o Genum \o <<" ">>,
      <<"/", "/", " ">> \o Genum \o <<" ">>,
      <<"/", "/", " ">> \o genumPrefix,
      <<>> }

HeadComments ==
    {lead \o head \o Join(toks, sep) \o trail :
        lead \in {<<>>, <<" ">>, <<"\t", " ">>},
        head \in Heads,
        toks \in {<<>>, <<Tok(KeyType, TypeS)>>,
                  <<Tok(KeyType, TypeS), Tok(KeyCase, Bogus)>>},
        sep \in {<<" ">>, <<" ", "\t">>},
        trail \in {<<>>, <<" ">>}}

Comments == TokenComments \cup QuoteComments \cup HeadComments

SourceFiles ==
    { <<"c", ".", "g", "o">>,
      <<"a", ".", "g", "o", ".", "g", "o">>,
      <<"x", ".", "g", "o", "x", ".", "g", "o">> }

(***************************************************************************)
(* The directive parser called on one comment                              *)
(***************************************************************************)
DInit ==
    /\ comment \in Comments
    /\ sourceFile \in SourceFiles
    /\ recognized = <<>>
    /\ flagsOut = <<>>
    /\ parsed = <<>>
    /\ MIdle
    /\ CIdle

CallIsGenumDirective ==
    /\ recognized = <<>>
    /\ recognized' = <<IsGenumDirective(comment)>>
    /\ UNCHANGED <<comment, sourceFile, flagsOut, parsed>>
    /\ UNCHANGED <<mvars, cvars>>

CallParseFlags ==
    /\ flagsOut = <<>>
    /\ flagsOut' = <<ParseFlags(comment)>>
    /\ UNCHANGED <<comment, sourceFile, recognized, parsed>>
    /\ UNCHANGED <<mvars, cvars>>

CallParseFromComment ==
    /\ parsed = <<>>
    /\ parsed' = <<ParseFromComment(comment, sourceFile)>>
    /\ UNCHANGED <<comment, sourceFile, recognized, flagsOut>>
    /\ UNCHANGED <<mvars, cvars>>

DNext == CallIsGenumDirective \/ CallParseFlags \/ CallParseFromComment

SpecD == DInit /\ [][DNext]_vars

(***************************************************************************)
(* Enumerated source files and the package they belong to                  *)
(***************************************************************************)
\* doc comments in an enumerated source file
MaxComments == 3

Lit(text, tv) == [Kind |-> "BasicLit", Text |-> text, Args |-> <<>>, TV |-> tv]
Ident(name, tv) == [Kind |-> "Ident", Text |-> name, Args |-> <<>>, TV |-> tv]
Call(args, tv) == [Kind |-> "CallExpr", Text |-> <<>>, Args |-> args, TV |-> tv]
Binary(tv) == [Kind |-> "BinaryExpr", Text |-> <<>>, Args |-> <<>>, TV |-> tv]

Quoted(v) == <<DQ>> \o v \o <<DQ>>

TypeNameObj(t) == [Kind |-> "TypeName", Type |-> t]
VarObj(t) == [Kind |-> "Var", Type |-> t]

ConstName(name, t) == [Name |-> name, Def |-> <<t>>]
GenDecl(tok, doc, specs) == [Kind |-> "GenDecl", Tok |-> tok, Doc |-> doc, Specs |-> specs]

TS == Named(<<"S">>, Basic(StringT))
TI == Named(<<"I">>, Basic(IntT))
TE == Named(<<"E">>, Basic(IntT))

\* type S string; type I int; type E int; var V int
FixtureScope ==
    (<<"S">> :> TypeNameObj(TS)) @@ (<<"I">> :> TypeNameObj(TI))
    @@ (<<"E">> :> TypeNameObj(TE)) @@ (<<"V">> :> VarObj(Basic(IntT)))

\* const ( SA S = "a"; SB S = "b"; sC S = "c" )
\* const ( IA I = iota; IB; eA E = 1 )
FixtureConsts ==
    << GenDecl("const", <<>>,
         << [Names |-> <<ConstName(<<"S", "A">>, TS)>>,
             Values |-> <<Lit(Quoted(<<"a">>), <<Quoted(<<"a">>)>>)>>],
            [Names |-> <<ConstName(<<"S", "B">>, TS)>>,
             Values |-> <<Lit(Quoted(<<"b">>), <<Quoted(<<"b">>)>>)>>],
            [Names |-> <<ConstName(<<"s", "C">>, TS)>>,
             Values |-> <<Lit(Quoted(<<"c">>), <<Quoted(<<"c">>)>>)>>] >>),
       GenDecl("const", <<>>,
         << [Names |-> <<ConstName(<<"I", "A">>, TI)>>,
             Values |-> <<Ident(<<"i", "o", "t", "a">>, <<<<"0">>>>)>>],
            [Names |-> <<ConstName(<<"I", "B">>, TI)>>, Values |-> <<>>],
            [Names |-> <<ConstName(<<"e", "A">>, TE)>>,
             Values |-> <<Lit(<<"1">>, <<<<"1">>>>)>>] >>) >>

\* the package of a source file: the file itself and a second file of constants
PackageOf(decls) ==
    [Name |-> <<"p">>, Scope |-> FixtureScope, Syntax |-> <<decls, FixtureConsts>>]

GoFile == <<"c", ".", "g", "o">>

Directive(type, opts) == genumPrefix \o Join(<<Tok(KeyType, type)>> \o opts, <<" ">>)

DocComments ==
    { Directive(<<"S">>, <<>>),
      Directive(<<"S">>, <<Tok(KeyCase, CaseIgnore)>>),
      Directive(<<"I">>, <<Tok(KeyCase, CaseIgnore)>>),
      Directive(<<"S">>, <<Tok(KeyOutput, OutGo), Tok(KeyCase, CaseLower)>>),
      Directive(<<"E">>, <<>>),
      Directive(<<"V">>, <<>>),
      Directive(<<"S">>, <<Tok(KeyCase, Bogus)>>),
      genumPrefix \o Tok(KeyOutput, OutGo),
      <<"/", "/", " ", "d", "o", "c">> }

\* a function declaration with its doc group, and a comment group of the file
\* that is the doc group of no declaration (ast.File.Comments only)
FuncDecl(doc) == [Kind |-> "FuncDecl", Tok |-> "func", Doc |-> doc, Specs |-> <<>>]

FreeComments(list) == [Kind |-> "CommentGroup", Tok |-> "", Doc |-> list, Specs |-> <<>>]

\* the nodes of a file made of a sequence of comments, each either opening the
\* doc group of a new type declaration ("decl"), continuing the last comment
\* group ("same"), opening the doc group of a function declaration ("func") or
\* standing alone, separated by a blank line from what follows ("free")
RECURSIVE Declarations(_)
Declarations(items) ==
    IF items = <<>> THEN <<>>
    ELSE LET rest == Declarations(SubSeq(items, 1, Len(items) - 1))
             last == items[Len(items)]
         IN IF last[2] = "func" THEN Append(rest, FuncDecl(<<last[1]>>))
            ELSE IF last[2] = "free" THEN Append(rest, FreeComments(<<last[1]>>))
            ELSE IF rest = <<>> \/ last[2] = "decl"
            THEN Append(rest, GenDecl("type", <<last[1]>>, <<>>))
            ELSE [rest EXCEPT ![Len(rest)].Doc = Append(@, last[1])]

\* the first comment of a file may be a directive outside any general declaration
FirstItems == (DocComments \X {"decl"}) \cup ({Directive(<<"S">>, <<>>)} \X {"func", "free"})

\* the comments that may continue a comment group
SameComments ==
    { Directive(<<"S">>, <<>>),
      Directive(<<"I">>, <<Tok(KeyCase, CaseIgnore)>>),
      Directive(<<"S">>, <<Tok(KeyCase, Bogus)>>),
      <<"/", "/", " ", "d", "o", "c">> }

LaterItems == (DocComments \X {"decl"}) \cup (SameComments \X {"same"})

Sources ==
    {<<>>} \cup {Declarations(<<f>> \o r) :
                    f \in FirstItems, r \in SeqsUpTo(LaterItems, MaxComments - 1)}

(***************************************************************************)
(* main.go, internal/loader.go, internal/generator.go                      *)
(***************************************************************************)
Init ==
    /\ source \in Sources
    /\ sourceFile = GoFile
    /\ pc = "Load"
    /\ env = <<>> /\ files = <<>> /\ err = <<>>
    /\ next = 1 /\ stderr = <<>> /\ exitCode = <<>> /\ written = <<>>
    /\ comment = <<>> /\ recognized = <<>> /\ flagsOut = <<>> /\ parsed = <<>>
    /\ CIdle

\* fail(): the message goes to the error stream, the process exits with 1
Fail(e) ==
    /\ stderr' = Append(stderr, e[1])
    /\ exitCode' = <<1>>
    /\ pc' = "Exited"

\* Loader.Load and main's check of its error (main.go 11-15)
Load ==
    /\ pc = "Load"
    /\ \E outcome \in {"ok", "package not found", "%s not find in package %s"} :
          IF outcome = "ok"
          THEN /\ env' = <<[Pkg |-> PackageOf(source),
                            SourceFile |-> source,
                            SourceFileName |-> sourceFile]>>
               /\ pc' = "Parse"
               /\ UNCHANGED <<err, stderr, exitCode>>
          ELSE /\ err' = Errorf(outcome, IF outcome = "package not found"
                                         THEN <<>> ELSE sourceFile)
               /\ Fail(err')
               /\ UNCHANGED env
    /\ UNCHANGED <<source, files, next, written>>
    /\ UNCHANGED <<dvars, cvars>>

\* Parser.Parse and main's check of its error (main.go 17-21)
DoParse ==
    /\ pc = "Parse"
    /\ \E r \in Parse(env[1]) :
          /\ files' = r.files
          /\ err' = r.err
          /\ IF r.err # <<>>
             THEN Fail(r.err)
             ELSE pc' = "Generate" /\ UNCHANGED <<stderr, exitCode>>
    /\ UNCHANGED <<source, env, next, written>>
    /\ UNCHANGED <<dvars, cvars>>

\* Generator.Generate on the next file: rendering or writing may fail
Generate(file, outcome) ==
    CASE outcome = "render" -> Wrapf("generate %s: %v", file.Output, Errorf("template", <<>>))
      [] outcome = "write" -> Wrapf("write %s: %v", file.Output, Errorf("os", <<>>))
      [] OTHER -> <<>>

\* one iteration of main's loop over files (main.go 24-28)
DoGenerate ==
    /\ pc = "Generate"
    /\ next <= Len(files)
    /\ \E outcome \in {"ok", "render", "write"} :
          /\ err' = Generate(files[next], outcome)
          /\ IF err' # <<>>
             THEN Fail(err') /\ UNCHANGED <<next, written>>
             ELSE /\ written' = Append(written, files[next].Output)
                  /\ next' = next + 1
                  /\ UNCHANGED <<pc, stderr, exitCode>>
    /\ UNCHANGED <<source, env, files>>
    /\ UNCHANGED <<dvars, cvars>>

\* the loop is over and main returns
Return ==
    /\ pc = "Generate"
    /\ next > Len(files)
    /\ pc' = "Exited"
    /\ exitCode' = <<0>>
    /\ UNCHANGED <<source, env, files, err, next, stderr, written>>
    /\ UNCHANGED <<dvars, cvars>>

Next == Load \/ DoParse \/ DoGenerate \/ Return

Spec == Init /\ [][Next]_vars

(***************************************************************************)
(* The constant extractor called on one package                            *)
(***************************************************************************)
\* constant specs in the enumerated constant group
MaxSpecs == 2

TT == Named(<<"T">>, Basic(StringT))
TU == Named(<<"U">>, Basic(StringT))

\* type T string; type U string
ConstScope == (<<"T">> :> TypeNameObj(TT)) @@ (<<"U">> :> TypeNameObj(TU))

LitX == Quoted(<<"x">>)
NameZ == <<"Z">>

\* initializers: with the constant value the type checker recorded, and without
\* it (the initializer did not type-check)
Initializers ==
    { <<>>,
      <<Lit(LitX, <<LitX>>)>>, <<Lit(LitX, <<>>)>>,
      <<Ident(NameZ, <<Quoted(<<"z">>)>>)>>, <<Ident(NameZ, <<>>)>>,
      <<Call(<<Lit(LitX, <<LitX>>)>>, <<LitX>>)>>, <<Call(<<Lit(LitX, <<>>)>>, <<>>)>>,
      <<Call(<<>>, <<>>)>>,
      <<Call(<<Call(<<Ident(NameZ, <<>>)>>, <<>>)>>, <<>>)>>,
      <<Binary(<<Quoted(<<"x", "y">>)>>)>>, <<Binary(<<>>)>> }

Shapes == BOOLEAN \X {TT, TU} \X Initializers

Digits == <<"1", "2", "3", "4", "5", "6", "7", "8", "9">>

\* the k-th spec of the group: one name, A<k> or a<k>
SpecAt(k, shape) ==
    [Names  |-> <<ConstName(<<IF shape[1] THEN "A" ELSE "a", Digits[k]>>, shape[2])>>,
     Values |-> shape[3]]

\* var V1 T, which is no constant
VarGroup ==
    GenDecl("var", <<>>, <<[Names |-> <<ConstName(<<"V", "1">>, TT)>>, Values |-> <<>>]>>)

\* the files of a package whose constant specs are cut after the first cut
\* specs: one file with one group, or two files with one group each
ConstFiles(specs, cut) ==
    IF cut = Len(specs)
    THEN << <<VarGroup, GenDecl("const", <<>>, specs)>> >>
    ELSE << <<VarGroup, GenDecl("const", <<>>, SubSeq(specs, 1, cut))>>,
            <<GenDecl("const", <<>>, SubSeq(specs, cut + 1, Len(specs)))>> >>

ConstPackage(shapes, cut) ==
    [Name   |-> <<"p">>,
     Scope  |-> ConstScope,
     Syntax |-> ConstFiles([k \in 1..Len(shapes) |-> SpecAt(k, shapes[k])], cut)]

CInit ==
    /\ \E shapes \in SeqsUpTo(Shapes, MaxSpecs) :
          \E cut \in {1, Len(shapes)} :
             /\ cut <= Len(shapes)
             /\ cpkg = ConstPackage(shapes, cut)
    /\ cvalues = <<>>
    /\ DIdle
    /\ MIdle

CallParseConstants ==
    /\ cvalues = <<>>
    /\ cvalues' = <<ParseConstants(cpkg, <<"T">>)>>
    /\ UNCHANGED cpkg
    /\ UNCHANGED <<dvars, mvars>>

CNext == CallParseConstants

SpecC == CInit /\ [][CNext]_vars

(***************************************************************************)
(* Properties of the directive parser                                      *)
(***************************************************************************)
\* the comment, seen from outside: optional whitespace, the marker, and after
\* the marker at least one character that is not whitespace
MarkerAfterTrim(c) ==
    \E i \in 1..Len(c) :
        /\ \A j \in 1..(i - 1) : c[j] \in WhiteSpace
        /\ i + Len(genumPrefix) - 1 <= Len(c)
        /\ \A k \in 1..Len(genumPrefix) : c[i + k - 1] = genumPrefix[k]
        /\ \E j \in (i + Len(genumPrefix))..Len(c) : c[j] \notin WhiteSpace

\* the tokens that follow the marker of a recognized comment
TokensOf(c) == Fields(TrimPrefix(TrimSpace(c), genumPrefix))

WellFormedTokens(c) == \A i \in 1..Len(TokensOf(c)) : "=" \in {TokensOf(c)[i][j] : j \in 1..Len(TokensOf(c)[i])}

KeyOf(tok) == Cut(tok, <<"=">>).before
RawValueOf(tok) == Cut(tok, <<"=">>).after

\* the raw value of the last token with key k, <<>> when there is none
LastRawIn(toks, k) ==
    LET at == {i \in 1..Len(toks) : KeyOf(toks[i]) = k}
    IN IF at = {} THEN <<>>
       ELSE RawValueOf(toks[CHOOSE i \in at : \A j \in at : j <= i])

HasKey(c, k) == \E i \in 1..Len(TokensOf(c)) : KeyOf(TokensOf(c)[i]) = k
LastRaw(c, k) == LastRawIn(TokensOf(c), k)

\* one pair of matching enclosing quotes removed, anything else kept
StripOnePair(v) ==
    IF Len(v) >= 2 /\ v[1] = v[Len(v)] /\ v[1] \in {DQ, SQ}
    THEN SubSeq(v, 2, Len(v) - 1)
    ELSE v

Returned(r) == r.directive # <<>> /\ r.err = <<>>
Failed(r, e) == r.directive = <<>> /\ r.err = e

\* C9: a comment is recognized iff, trimmed, it begins with the exact marker;
\* ParseFromComment returns neither a directive nor an error exactly for the
\* comments that are not recognized.
C9_PrefixExact ==
    /\ recognized # <<>> => (recognized[1] <=> MarkerAfterTrim(comment))
    /\ parsed # <<>> =>
          ((parsed[1].directive = <<>> /\ parsed[1].err = <<>>)
              <=> ~MarkerAfterTrim(comment))

\* the tool name, and even the whole marker, occur in a comment that is not recognized
C9_Witness ==
    /\ recognized = <<FALSE>>
    /\ parsed # <<>> /\ parsed[1] = [directive |-> <<>>, err |-> <<>>]
    /\ Index(comment, <<"s", "o", "m", "e">> \o Genum \o <<" ">>) > 0

\* C10: a returned directive has a non-empty TypeName; a recognized comment of
\* well-formed tokens without -type, or with an empty one, fails with
\* "-type=<type> is required".
C10_TypeRequired ==
    parsed # <<>> =>
        /\ parsed[1].directive # <<>> => parsed[1].directive[1].TypeName # <<>>
        /\ ( /\ MarkerAfterTrim(comment)
             /\ WellFormedTokens(comment)
             /\ LastRaw(comment, KeyType) \in {<<>>, <<DQ, DQ>>, <<SQ, SQ>>} )
           => Failed(parsed[1], Errorf("-type=<type> is required", <<>>))

\* -type="" with another well-formed token has been parsed
C10_Witness ==
    /\ parsed # <<>>
    /\ MarkerAfterTrim(comment) /\ WellFormedTokens(comment)
    /\ LastRaw(comment, KeyType) = <<DQ, DQ>>
    /\ HasKey(comment, KeyCase)
    /\ parsed[1].err = Errorf("-type=<type> is required", <<>>)

\* C3: with a non-empty -type, an empty case mode gives sensitive, one of the
\* four modes gives that mode, any other value fails naming the mode.
C3_CaseMode ==
    ( /\ parsed # <<>>
      /\ MarkerAfterTrim(comment) /\ WellFormedTokens(comment)
      /\ StripOnePair(LastRaw(comment, KeyType)) # <<>> )
    => LET mode == StripOnePair(LastRaw(comment, KeyCase))
       IN IF mode = <<>>
          THEN Returned(parsed[1]) /\ parsed[1].directive[1].Case = CaseSensitive
          ELSE IF mode \in {CaseSensitive, CaseIgnore, CaseLower, CaseUpper}
          THEN Returned(parsed[1]) /\ parsed[1].directive[1].Case = mode
          ELSE Failed(parsed[1], Errorf("invalid argument -case: %s", mode))

\* C4: ParseFlags maps each key to its value with exactly one pair of matching
\* enclosing quotes removed and nothing else.
C4_StripOnePair ==
    (flagsOut # <<>> /\ flagsOut[1].err = <<>>) =>
        LET toks == Fields(TrimPrefix(comment, genumPrefix))
        IN \A i \in 1..Len(toks) :
              /\ KeyOf(toks[i]) \in DOMAIN flagsOut[1].flags[1]
              /\ flagsOut[1].flags[1][KeyOf(toks[i])]
                    = StripOnePair(LastRawIn(toks, KeyOf(toks[i])))

\* C5: without -output, the output path of a source file ending in .go is its
\* stem followed by _genum.go.
C5_DerivedOutput ==
    ( /\ parsed # <<>> /\ Returned(parsed[1])
      /\ StripOnePair(LastRaw(comment, KeyOutput)) = <<>>
      /\ HasSuffix(sourceFile, DotGo) )
    => parsed[1].directive[1].OutputFile
          = SubSeq(sourceFile, 1, Len(sourceFile) - Len(DotGo)) \o GenumDotGo

\* the position of the first "=" of a token, 0 when it has none
FirstEq(tok) ==
    IF \E n \in 1..Len(tok) : tok[n] = "="
    THEN CHOOSE n \in 1..Len(tok) :
            tok[n] = "=" /\ \A m \in 1..(n - 1) : tok[m] # "="
    ELSE 0

\* C11: ParseFlags splits every token at its first "=": the key is the text
\* before it, the value everything after it (later "=" kept, enclosing quotes
\* normalized); a token without "=" fails the whole parse with an error naming
\* that token, and no map is returned.
C11_FirstEquals ==
    flagsOut # <<>> =>
        LET toks == Fields(TrimPrefix(comment, genumPrefix))
            bad == {i \in 1..Len(toks) : FirstEq(toks[i]) = 0}
            KeyAt(i) == SubSeq(toks[i], 1, FirstEq(toks[i]) - 1)
            ValueAt(i) == SubSeq(toks[i], FirstEq(toks[i]) + 1, Len(toks[i]))
        IN IF bad = {}
           THEN /\ flagsOut[1].err = <<>>
                /\ flagsOut[1].flags # <<>>
                /\ DOMAIN flagsOut[1].flags[1] = {KeyAt(i) : i \in 1..Len(toks)}
                /\ \A i \in 1..Len(toks) :
                      (\A j \in (i + 1)..Len(toks) : KeyAt(j) # KeyAt(i))
                      => flagsOut[1].flags[1][KeyAt(i)] = Trim(ValueAt(i), {DQ, SQ})
           ELSE /\ flagsOut[1].flags = <<>>
                /\ flagsOut[1].err
                      = Errorf("invalid argument: %s",
                               toks[CHOOSE i \in bad : \A j \in bad : i <= j])

\* -type=S=T went through ParseFlags and the value kept its "="
C11_Witness ==
    /\ flagsOut # <<>> /\ flagsOut[1].err = <<>>
    /\ Index(comment, Tok(KeyType, <<"S", "=", "T">>)) > 0
    /\ flagsOut[1].flags[1][KeyType] = <<"S", "=", "T">>

(***************************************************************************)
(* Properties of a run of main                                             *)
(***************************************************************************)
RECURSIVE Flatten(_)
Flatten(ss) == IF ss = <<>> THEN <<>> ELSE Head(ss) \o Flatten(Tail(ss))

\* the doc comments attached to the general declarations of the source file
DocCommentsOf(decls) ==
    Flatten([i \in 1..Len(decls) |->
                IF decls[i].Kind = "GenDecl" THEN decls[i].Doc ELSE <<>>])

\* the errors of the malformed directives among them
MalformedErrors ==
    {ParseFromComment(DocCommentsOf(source)[i], sourceFile).err :
        i \in 1..Len(DocCommentsOf(source))} \ {<<>>}

\* the directives among them, in source order
DirectivesOf(decls) ==
    Flatten([i \in 1..Len(DocCommentsOf(decls)) |->
                ParseFromComment(DocCommentsOf(decls)[i], sourceFile).directive])

ParseHasRun == pc \in {"Generate", "Exited"} /\ env # <<>>
ParseSucceeded == ParseHasRun /\ files # <<>>

\* C1: when the source file has a malformed directive, Parse returns that
\* directive's error and no generation unit is produced or written.
C1_MalformedAborts ==
    (ParseHasRun /\ MalformedErrors # {}) =>
        /\ err \in MalformedErrors
        /\ files = <<>>
        /\ written = <<>>

\* C2: a unit's NeedStringsPackage is true iff some enum of the unit, at any
\* position, has a case mode other than sensitive and base type string.
C2_NeedStrings ==
    ParseSucceeded =>
        \A k \in 1..Len(files) :
            files[k].NeedStringsPackage
                <=> \E j \in 1..Len(files[k].Enums) :
                        /\ files[k].Enums[j].Case # CaseSensitive
                        /\ files[k].Enums[j].BaseType = StringT

\* the enum a directive stands for
EnumOf(d) ==
    [TypeName   |-> d.TypeName,
     BaseType   |-> ParseBaseType(PackageOf(source), d.TypeName)[1],
     TrimPrefix |-> d.TrimPrefix,
     Case       |-> d.Case,
     Values     |-> ParseConstants(PackageOf(source), d.TypeName)]

\* C7: for well-formed directives whose extraction succeeds, Parse returns one
\* unit per distinct output path, with the package and source file names, its
\* enums being those of the directives with that output path in source order.
C7_Grouping ==
    (ParseSucceeded /\ MalformedErrors = {}) =>
        LET ds == DirectivesOf(source)
        IN /\ Len(files) = Cardinality({ds[i].OutputFile : i \in 1..Len(ds)})
           /\ {files[k].Output : k \in 1..Len(files)}
                 = {ds[i].OutputFile : i \in 1..Len(ds)}
           /\ \A k \in 1..Len(files) :
                 LET Mine(d) == d.OutputFile = files[k].Output
                     mine == SelectSeq(ds, Mine)
                 IN /\ files[k].Package = <<"p">>
                    /\ files[k].Source = sourceFile
                    /\ files[k].Enums = [j \in 1..Len(mine) |-> EnumOf(mine[j])]

\* two units, one of them with two enums of different types
C7_Witness ==
    /\ ParseSucceeded /\ MalformedErrors = {}
    /\ Len(files) = 2
    /\ \E k \in 1..2 :
          /\ Len(files[k].Enums) = 2
          /\ files[k].Enums[1].TypeName # files[k].Enums[2].TypeName

\* C8: a run in which any stage failed (loading, parsing a directive, resolving
\* a type, extracting, rendering or writing) ends with the first failure's
\* message written once to the error stream, a non-zero status, and no unit
\* written after the failure (none at all when Parse failed); a run without
\* failure ends with status zero and an empty error stream.
C8_FailFast ==
    pc = "Exited" =>
        IF err # <<>> \/ (env # <<>> /\ MalformedErrors # {})
        THEN /\ exitCode # <<>> /\ exitCode[1] # 0
             /\ Len(stderr) = 1
             /\ err = <<stderr[1]>>
             /\ written = [k \in 1..(next - 1) |-> files[k].Output]
             /\ (env # <<>> /\ MalformedErrors # {}) => written = <<>>
        ELSE /\ exitCode = <<0>>
             /\ stderr = <<>>
             /\ written = [k \in 1..Len(files) |-> files[k].Output]

\* the declared constants of a package: the names of the specs of the constant
\* groups of its files
ConstGroups(pkg) ==
    UNION {{pkg.Syntax[f][d] : d \in {d \in 1..Len(pkg.Syntax[f]) :
                                        /\ pkg.Syntax[f][d].Kind = "GenDecl"
                                        /\ pkg.Syntax[f][d].Tok = "const"}} :
           f \in 1..Len(pkg.Syntax)}

DeclaredConsts(pkg) ==
    UNION {UNION {{g.Specs[sp].Names[n] : n \in 1..Len(g.Specs[sp].Names)} :
                  sp \in 1..Len(g.Specs)} :
           g \in ConstGroups(pkg)}

\* the exported constants whose type is exactly t
ExportedOfType(pkg, t) ==
    {c \in DeclaredConsts(pkg) : c.Def = <<t>> /\ c.Name[1] \in UpperCase}

\* the name is declared as a type of the package
Resolves(pkg, name) ==
    name \in DOMAIN pkg.Scope /\ pkg.Scope[name].Kind = "TypeName"

\* the type resolves and has no exported constant
ResolvesEmpty(pkg, name) ==
    Resolves(pkg, name) /\ ExportedOfType(pkg, pkg.Scope[name].Type) = {}

NoValuesFound(name) ==
    Wrapf("failed to parse enum %s: %w", name,
          Errorf("no values found for enum %s", name))

\* C12: every Enum of every unit Parse returns has at least one value; a
\* directive whose type resolves but has no exported constant of exactly that
\* type makes Parse fail, with "no values found for enum <type>" when no
\* earlier directive failed.
C12_NonEmptyValues ==
    /\ ParseSucceeded =>
          \A k \in 1..Len(files) : \A j \in 1..Len(files[k].Enums) :
              Len(files[k].Enums[j].Values) >= 1
    /\ (ParseHasRun /\ MalformedErrors = {}) =>
          LET ds == DirectivesOf(source)
              pkg == env[1].Pkg
          IN \A i \in 1..Len(ds) :
                ResolvesEmpty(pkg, ds[i].TypeName) =>
                    /\ files = <<>>
                    /\ err # <<>>
                    /\ (\A j \in 1..(i - 1) :
                            /\ Resolves(pkg, ds[j].TypeName)
                            /\ ~ResolvesEmpty(pkg, ds[j].TypeName))
                       => err = NoValuesFound(ds[i].TypeName)

\* a directive for E, a type with only an unexported constant, came after a
\* directive that extracted, and Parse failed on it
C12_Witness ==
    /\ ParseHasRun /\ MalformedErrors = {}
    /\ Len(DirectivesOf(source)) >= 2
    /\ DirectivesOf(source)[1].TypeName = <<"S">>
    /\ err = NoValuesFound(<<"E">>)
    /\ files = <<>> /\ written = <<>>

\* every comment of the source file, attached to a declaration or not
AllCommentsOf(decls) == Flatten([i \in 1..Len(decls) |-> decls[i].Doc])

\* the comments that are in the doc group of no general declaration
UnattachedOf(decls) ==
    Flatten([i \in 1..Len(decls) |->
                IF decls[i].Kind = "GenDecl" THEN <<>> ELSE decls[i].Doc])

NoDirectivesFound == Errorf("no genum directives found", <<>>)

\* C14: when no comment of the source file is a recognized directive, Parse
\* fails with exactly "no genum directives found", no type was resolved or
\* extracted (the error is not one of ParseSingleEnum) and no unit is returned.
C14_NoDirectives ==
    (ParseHasRun /\ \A i \in 1..Len(AllCommentsOf(source)) :
                        ~MarkerAfterTrim(AllCommentsOf(source)[i])) =>
        /\ err = NoDirectivesFound
        /\ files = <<>>
        /\ written = <<>>
        /\ pc = "Exited" /\ exitCode = <<1>>

\* a file with a declaration documented by an ordinary comment was parsed
C14_Witness ==
    /\ ParseHasRun
    /\ Len(DocCommentsOf(source)) >= 1
    /\ \A i \in 1..Len(AllCommentsOf(source)) : ~MarkerAfterTrim(AllCommentsOf(source)[i])
    /\ err = NoDirectivesFound /\ files = <<>>

\* C15: directives are collected only from the doc groups of the general
\* declarations, in source order: a file whose recognized directives are all
\* outside such groups fails with "no genum directives found", and the enums
\* of a successful Parse are those of the attached directives only.
C15_AttachedOnly ==
    ParseHasRun =>
        LET attached == DocCommentsOf(source)
            ds == DirectivesOf(source)
        IN /\ (\A i \in 1..Len(attached) : ~MarkerAfterTrim(attached[i])) =>
                 err = NoDirectivesFound /\ files = <<>> /\ written = <<>>
           /\ (ParseSucceeded /\ MalformedErrors = {}) =>
                 \A k \in 1..Len(files) :
                    LET Mine(d) == d.OutputFile = files[k].Output
                        mine == SelectSeq(ds, Mine)
                    IN /\ Len(files[k].Enums) = Len(mine)
                       /\ \A j \in 1..Len(mine) :
                             /\ files[k].Enums[j].TypeName = mine[j].TypeName
                             /\ files[k].Enums[j].Case = mine[j].Case

\* the only recognized directive of the file stands outside every general
\* declaration, and Parse found no directive
C15_Witness ==
    /\ ParseHasRun
    /\ \E i \in 1..Len(UnattachedOf(source)) :
          /\ MarkerAfterTrim(UnattachedOf(source)[i])
          /\ ParseFromComment(UnattachedOf(source)[i], sourceFile).directive # <<>>
    /\ Len(DocCommentsOf(source)) >= 1
    /\ \A i \in 1..Len(DocCommentsOf(source)) : ~MarkerAfterTrim(DocCommentsOf(source)[i])
    /\ err = NoDirectivesFound /\ files = <<>>

\* a directive outside every general declaration came before an attached one,
\* and only the attached one made an enum
C15_WitnessMixed ==
    /\ ParseSucceeded /\ MalformedErrors = {}
    /\ \E i \in 1..Len(UnattachedOf(source)) : MarkerAfterTrim(UnattachedOf(source)[i])
    /\ Len(DirectivesOf(source)) = 1
    /\ Len(files) = 1 /\ Len(files[1].Enums) = 1

(***************************************************************************)
(* Properties of the constant extractor                                    *)
(***************************************************************************)
\* the specs of the enumerated constant group
ConstSpecsOf(decls) ==
    Flatten([d \in 1..Len(decls) |->
                IF decls[d].Kind = "GenDecl" /\ decls[d].Tok = "const"
                THEN decls[d].Specs ELSE <<>>])

GroupSpecs == Flatten([f \in 1..Len(cpkg.Syntax) |-> ConstSpecsOf(cpkg.Syntax[f])])

\* what the initializer expression alone gives: a literal its text without
\* quotes, an identifier its name, a call what its first argument gives,
\* anything else nothing
RECURSIVE FromExpr(_)
FromExpr(expr) ==
    CASE expr.Kind = "BasicLit" -> StripOnePair(expr.Text)
      [] expr.Kind = "Ident" -> expr.Text
      [] expr.Kind = "CallExpr" /\ expr.Args # <<>> -> FromExpr(expr.Args[1])
      [] OTHER -> <<>>

\* the ordered chain: resolved value, then the expression, then the name
ChainValue(spec) ==
    LET name == spec.Names[1].Name
    IN IF spec.Values = <<>> THEN name
       ELSE IF spec.Values[1].TV # <<>> THEN StripOnePair(spec.Values[1].TV[1])
       ELSE IF FromExpr(spec.Values[1]) # <<>> THEN FromExpr(spec.Values[1])
       ELSE name

\* C6: the value of every extracted constant follows the chain resolved value,
\* initializer expression, declared name; no extracted value is empty.
C6_ValueChain ==
    cvalues # <<>> =>
        \A i \in 1..Len(cvalues[1]) :
            /\ cvalues[1][i].Value # <<>>
            /\ \E k \in 1..Len(GroupSpecs) :
                  /\ GroupSpecs[k].Names[1].Name = cvalues[1][i].Name
                  /\ cvalues[1][i].Value = ChainValue(GroupSpecs[k])

\* the names the constant groups of a package declare, in declaration order
NamesOf(specs) == Flatten([k \in 1..Len(specs) |-> specs[k].Names])

\* C13: ParseConstants returns exactly the constants whose type is identical to
\* the target type and whose name is exported, in declaration order across the
\* files of the package; unexported constants of the type are left out.
C13_VisibilityFilter ==
    cvalues # <<>> =>
        LET Matches(c) == c.Def = <<TT>> /\ c.Name[1] \in UpperCase
            expected == SelectSeq(NamesOf(GroupSpecs), Matches)
        IN /\ Len(cvalues[1]) = Len(expected)
           /\ \A i \in 1..Len(expected) : cvalues[1][i].Name = expected[i].Name

\* two files: an unexported constant of T in the first, an exported one in the
\* second, and only the exported one is returned
C13_Witness ==
    /\ cvalues # <<>>
    /\ Len(cpkg.Syntax) = 2
    /\ GroupSpecs[1].Names[1] = ConstName(<<"a", "1">>, TT)
    /\ GroupSpecs[2].Names[1] = ConstName(<<"A", "2">>, TT)
    /\ Len(cvalues[1]) = 1 /\ cvalues[1][1].Name = <<"A", "2">>

====
